---------------------------- MODULE Spec2Model ----------------------------
(***************************************************************************)
(* A model of the Wick contraction engine of Xymbolic: Index / Op / Delta /*)
(* Expr (the Term), ResultExpr (the TermSum) and WickTheorem.              *)
(*                                                                         *)
(* Conventions.  Rust positions are 0-based; sequences here are 1-based,   *)
(* so position k of the model is position k-1 of the code.  Index names    *)
(* are the numbers n standing for the label "p_n" (String's order on those *)
(* labels is the order of the numbers, for one-digit n).                   *)
(***************************************************************************)
EXTENDS Integers, Sequences, FiniteSets, TLC

VARIABLES
    \* ---- WickTheorem (src/src/wick.rs:12-18) and what compute() went through
    expr_, full_contractions_, wick_result_, vacuum_, statistics_,
    pairings_,      \* the local `pairings` of wick_expand_fc_pv (line 82)
    emitted_,       \* the terms the closure of lines 86-104 returned, in order
    computed_,      \* which arm of compute()'s match ran last
    panicked_,      \* whether a call panicked
    \* ---- a pure function applied to an argument
    fn_arg, fn_out,
    \* ---- the call stack of one recursive expansion, stepped call by call
    stack, ret, root,
    \* ---- a ResultExpr being built from a list of terms
    pool, sumA, sumB, usedA, usedB,
    merge_op,       \* the ResultExpr operation that ran last
    \* ---- an Expr being combined with another one, and an Index being built
    self_, other_, expr_op, built

wickVars  == <<expr_, full_contractions_, wick_result_, vacuum_, statistics_,
               pairings_, emitted_, computed_, panicked_>>
fnVars    == <<fn_arg, fn_out>>
stepVars  == <<stack, ret, root>>
mergeVars == <<pool, sumA, sumB, usedA, usedB, merge_op>>
exprVars  == <<self_, other_, expr_op, built>>
vars      == <<wickVars, fnVars, stepVars, mergeVars, exprVars>>

----------------------------------------------------------------------------
(* Bounds of the model *)

MaxOps == 4          \* operators of a WickTheorem input term
MaxFnOps == 6        \* operators of an argument of generate_pairings
MaxStepOps == 5      \* operators of a term expanded call by call
StackCap == 12       \* frames the modelled call stack can hold
MaxPool == 3         \* terms merged into one ResultExpr
MaxExprOps == 2      \* operators of a term made by combining two terms
MaxDeltas == 3       \* deltas of a term built by add_delta calls

----------------------------------------------------------------------------
(* attr.rs *)

Vacuums == {"Physical", "Fermi", "MultiReference"}
Spaces == {"General", "Occupied", "Virtual", "DoublyOccupied"}
Actions == {"Create", "Annihilate"}
StatisticsSet == {"FermiDirac", "BoseEinstein", "Arbitrary"}

\* is_allowed with General refused under every vacuum but Physical
is_allowed_general_physical(space, v) ==
    CASE v = "Physical" -> space = "General"
      [] v = "Fermi" -> space # "General"
      [] v = "MultiReference" -> space # "General"

\* Space::is_allowed
is_allowed(space, v) ==
    CASE v = "Physical" -> space = "General"
      [] v = "Fermi" -> space # "General"
      [] v = "MultiReference" -> TRUE

----------------------------------------------------------------------------
(* f64 coefficients.                                                       *)
(* A coefficient is <<g, a, t>>, the real number g*2^53 + a + t*2^-50 with *)
(* small integers g, a, t: the three magnitudes at which the code's        *)
(* behaviour differs (beyond the 53-bit significand; ordinary; around the  *)
(* 1e-15 and 1e-12 thresholds).  Every such number with g = 0 and |a| < 8  *)
(* is an f64, and RoundF64 is IEEE-754 round-to-nearest, ties-to-even.     *)

F(a) == <<0, a, 0>>
Big(g) == <<g, 0, 0>>
Tiny(t) == <<0, 0, t>>

Abs(n) == IF n < 0 THEN -n ELSE n

RECURSIVE Log2Floor(_)
Log2Floor(n) == IF n <= 1 THEN 0 ELSE 1 + Log2Floor(n \div 2)

RECURSIVE Pow2(_)
Pow2(k) == IF k <= 0 THEN 1 ELSE 2 * Pow2(k - 1)

IsPow2(n) == n = Pow2(Log2Floor(n))

\* x rounded to the nearest multiple of ulp, where the real number rounded is
\* x + frac with |frac| < 1/2 of sign fsign; ties go to the even multiple.
RoundToMultiple(x, fsign, ulp) ==
    IF ulp = 1 THEN x
    ELSE LET r == x % ulp
             base == x - r
             half == ulp \div 2
             up == \/ r > half
                   \/ r = half /\ fsign > 0
                   \/ r = half /\ fsign = 0 /\ (base \div ulp) % 2 # 0
         IN  IF (r = 0 \/ ~up) THEN base ELSE base + ulp

Sign(n) == IF n > 0 THEN 1 ELSE IF n < 0 THEN -1 ELSE 0

\* The positive real g*2^53 + a + t*2^-50 (g > 0) rounded to f64.
RoundBigPos(g, a, t) ==
    LET below == a < 0 \/ (a = 0 /\ t < 0)       \* the number is under g*2^53
        e == IF below /\ IsPow2(g) THEN Log2Floor(g) ELSE Log2Floor(g) + 1
    IN  <<g, RoundToMultiple(a, Sign(t), Pow2(e)), 0>>

\* The positive real a + t*2^-50 (a > 0) rounded to f64: one unit in the last
\* place is 2^(E-52) for the number's binade E, that is 2^(E-2) units of t.
RoundUnitPos(a, t) ==
    LET e == IF t < 0 /\ IsPow2(a) THEN Log2Floor(a) - 1 ELSE Log2Floor(a)
    IN  IF e <= 2 THEN <<0, a, t>>
        ELSE <<0, a, RoundToMultiple(t, 0, Pow2(e - 2))>>

fneg(x) == <<-x[1], -x[2], -x[3]>>

RoundF64(g, a, t) ==
    IF g > 0 THEN RoundBigPos(g, a, t)
    ELSE IF g < 0 THEN fneg(RoundBigPos(-g, -a, -t))
    ELSE IF a > 0 THEN RoundUnitPos(a, t)
    ELSE IF a < 0 THEN fneg(RoundUnitPos(-a, -t))
    ELSE <<0, 0, t>>

\* `+` of f64
fadd(x, y) == RoundF64(x[1] + y[1], x[2] + y[2], x[3] + y[3])

\* multiplication by the literal -1.0 or 1.0 (exact)
fmul_sign(sign, x) == IF sign < 0 THEN fneg(x) ELSE x

\* x * y for a y that is 1.0 or -1.0 (exact)
fmul_unit(x, y) == IF y = F(-1) THEN fneg(x) ELSE x

\* 1e-15 lies between 1*2^-50 and 2*2^-50; 1e-12 between 1125 and 1126 times 2^-50
MergeEpsUnits == 2
ContractEpsUnits == 1125

\* x.abs() < 1e-15
abs_lt_1e15(x) == x[1] = 0 /\ x[2] = 0 /\ Abs(x[3]) < MergeEpsUnits

\* x.abs() > 1e-15
abs_gt_1e15(x) == x[1] # 0 \/ x[2] # 0 \/ Abs(x[3]) >= MergeEpsUnits

\* x.abs() > 1e-12
abs_gt_1e12(x) == x[1] # 0 \/ x[2] # 0 \/ Abs(x[3]) > ContractEpsUnits

----------------------------------------------------------------------------
(* index.rs, op.rs *)

\* Index::new(name).with_space(space).with_vacuum(vacuum)
Index(name, space, vacuum) == [name |-> name, space |-> space, vacuum |-> vacuum]

\* Index::build: Ok(self) exactly when the space is allowed under the vacuum
build_ok(idx) == is_allowed(idx.space, idx.vacuum)

Op(index, action) == [index |-> index, action |-> action]
fcrex(index) == Op(index, "Create")
fannx(index) == Op(index, "Annihilate")

can_contract(op1, op2) == op1.action = "Annihilate" /\ op2.action = "Create"

Delta(a, b) == [a |-> a, b |-> b]

\* Delta::canonical: the two names, the smaller first
canonical(d) ==
    IF d.a.name < d.b.name THEN <<d.a.name, d.b.name>> ELSE <<d.b.name, d.a.name>>

----------------------------------------------------------------------------
(* expr.rs *)

\* Expr::new
ExprNew == [coeff |-> F(1), deltas |-> <<>>, ops |-> <<>>, statistic |-> "FermiDirac"]

set_coeff(e, c) == [e EXCEPT !.coeff = c]
set_statistic(e, s) == [e EXCEPT !.statistic = s]
append_op(e, op) == [e EXCEPT !.ops = Append(@, op)]

\* Expr::append_expr: no test of the statistics, the receiver keeps its own
append_expr(e, other) ==
    [e EXCEPT !.ops = @ \o other.ops, !.deltas = @ \o other.deltas,
              !.coeff = fmul_unit(@, other.coeff)]

\* Mul<Expr> for Expr: assert_eq! on the statistics panics when they differ
mul_expr(e, rhs) ==
    IF e.statistic # rhs.statistic THEN [panic |-> TRUE]
    ELSE [panic |-> FALSE,
          val |-> [e EXCEPT !.coeff = fmul_unit(@, rhs.coeff), !.ops = @ \o rhs.ops,
                            !.deltas = @ \o rhs.deltas]]

\* the first position of ds whose delta has .a equal to idx, or 0
RECURSIVE FirstWithA(_, _, _)
FirstWithA(ds, idx, k) ==
    IF k > Len(ds) THEN 0
    ELSE IF ds[k].a = idx THEN k
    ELSE FirstWithA(ds, idx, k + 1)

\* Expr::add_delta
add_delta(e, delta) ==
    IF delta.a = delta.b THEN e
    ELSE LET k == FirstWithA(e.deltas, delta.b, 1)
         IN  IF k # 0 THEN [e EXCEPT !.deltas[k].a = delta.a]
             ELSE [e EXCEPT !.deltas = Append(@, delta)]

\* the order of Vec<(&String, &String)>::sort: lexicographic on the pair
PairLeq(p, q) == p[1] < q[1] \/ (p[1] = q[1] /\ p[2] <= q[2])

RECURSIVE InsertSorted(_, _)
InsertSorted(s, p) ==
    IF s = <<>> THEN <<p>>
    ELSE IF PairLeq(p, Head(s)) THEN <<p>> \o s
    ELSE <<Head(s)>> \o InsertSorted(Tail(s), p)

RECURSIVE SortPairs(_)
SortPairs(s) == IF s = <<>> THEN <<>> ELSE InsertSorted(SortPairs(Tail(s)), Head(s))

\* the sorted canonical pairs of a delta list (lines 94-97)
CanonicalSorted(ds) == SortPairs([k \in 1..Len(ds) |-> canonical(ds[k])])

\* Expr::is_similar
is_similar(e, other) ==
    IF e.statistic # other.statistic THEN FALSE
    ELSE IF e.ops # other.ops THEN FALSE
    ELSE IF Len(e.deltas) # Len(other.deltas) THEN FALSE
    ELSE CanonicalSorted(e.deltas) = CanonicalSorted(other.deltas)

\* is_normal_order: no window of two operators can contract
is_normal_order(e) ==
    \A k \in 1..(Len(e.ops) - 1) : ~can_contract(e.ops[k], e.ops[k + 1])

----------------------------------------------------------------------------
(* result_expr.rs: a ResultExpr is the sequence of its terms *)

ResultNew == <<>>
from_expr(e) == <<e>>

\* the first position of terms whose term is similar to term, or 0
RECURSIVE FindSimilar(_, _, _)
FindSimilar(terms, term, k) ==
    IF k > Len(terms) THEN 0
    ELSE IF is_similar(terms[k], term) THEN k
    ELSE FindSimilar(terms, term, k + 1)

\* push_and_merge with `=` for the `+=` of line 62
push_and_merge_assign(terms, term) ==
    IF abs_lt_1e15(term.coeff) THEN terms
    ELSE LET k == FindSimilar(terms, term, 1)
         IN  IF k # 0 THEN [terms EXCEPT ![k].coeff = term.coeff]
             ELSE Append(terms, term)

\* ResultExpr::push_and_merge
push_and_merge(terms, term) ==
    IF abs_lt_1e15(term.coeff) THEN terms
    ELSE LET k == FindSimilar(terms, term, 1)
         IN  IF k # 0 THEN [terms EXCEPT ![k].coeff = fadd(@, term.coeff)]
             ELSE Append(terms, term)

\* ResultExpr + ResultExpr, and FromIterator<Expr> (from the empty ResultExpr):
\* the terms of rhs from position k on are pushed one by one.  (Each sum is
\* bound as a value before the next push, so that it is evaluated once.)
RECURSIVE AddFrom(_, _, _)
AddFrom(terms, rhs, k) ==
    IF k > Len(rhs) THEN terms
    ELSE CHOOSE r \in {AddFrom(t, rhs, k + 1) : t \in {push_and_merge(terms, rhs[k])}} : TRUE

AddResult(terms, rhs) == AddFrom(terms, rhs, 1)

from_iter(items) == AddResult(ResultNew, items)

\* simplify retaining every term whose coefficient is not 0.0
simplify_nonzero(terms) == SelectSeq(terms, LAMBDA t : t.coeff # F(0))

\* ResultExpr::simplify
simplify(terms) == SelectSeq(terms, LAMBDA t : abs_gt_1e15(t.coeff))

----------------------------------------------------------------------------
(* wick.rs: the pure functions *)

\* the filter of lines 191-196 dropping positions 1 and 2 whatever k is
Rest_first_two(free, k) == [m \in 1..(Len(free) - 2) |-> free[m + 2]]

\* free_indices without its positions 1 and k (lines 191-196)
Rest(free, k) ==
    [m \in 1..(Len(free) - 2) |-> IF m + 1 < k THEN free[m + 1] ELSE free[m + 2]]

\* each pairing of subs with the pair (i, j) in front (lines 202-207)
Prepend(pair, subs) == [m \in 1..Len(subs) |-> <<pair>> \o subs[m]]

\* generate_pairings, and its loop over k from position k on (lines 180-208)
RECURSIVE generate_pairings(_, _), PairLoop(_, _, _)
generate_pairings(ops, free) ==
    IF free = <<>> THEN << <<>> >>
    ELSE IF ops[free[1]].action = "Create" THEN <<>>
    ELSE PairLoop(ops, free, 2)

PairLoop(ops, free, k) ==
    IF k > Len(free) THEN <<>>
    ELSE IF ~can_contract(ops[free[1]], ops[free[k]]) THEN PairLoop(ops, free, k + 1)
    ELSE Prepend(<<free[1], free[k]>>, generate_pairings(ops, Rest(free, k)))
             \o PairLoop(ops, free, k + 1)

\* a pair with its smaller position first (line 228)
Normalize(pr) == IF pr[1] < pr[2] THEN pr ELSE <<pr[2], pr[1]>>

\* the test of line 242 on two normalized pairs
Interlaced(x, y) ==
    \/ x[1] < y[1] /\ y[1] < x[2] /\ x[2] < y[2]
    \/ y[1] < x[1] /\ x[1] < y[2] /\ y[2] < x[2]

\* count_crossings with the last comparison of each case left out, so that a
\* pair nested inside another counts as a crossing
count_crossings_nested(p) ==
    Cardinality({ab \in (1..Len(p)) \X (1..Len(p)) :
                    /\ ab[1] < ab[2]
                    /\ LET x == Normalize(p[ab[1]])
                           y == Normalize(p[ab[2]])
                       IN  \/ x[1] < y[1] /\ y[1] < x[2]
                           \/ y[1] < x[1] /\ x[1] < y[2]})

\* count_crossings: one count for each a < b whose pairs interlace
count_crossings(p) ==
    Cardinality({ab \in (1..Len(p)) \X (1..Len(p)) :
                    /\ ab[1] < ab[2]
                    /\ Interlaced(Normalize(p[ab[1]]), Normalize(p[ab[2]]))})

get_op_index(op) == op.index

\* the sign of lines 89-92 taken as +1.0 whatever the crossings
FcSign_plus(statistics, c) == 1

\* the sign of lines 89-92
FcSign(statistics, c) == IF statistics = "FermiDirac" /\ c % 2 # 0 THEN -1 ELSE 1

\* the deltas of one pairing, added pair by pair from pair k on (lines 97-102)
RECURSIVE AddPairDeltas(_, _, _, _)
AddPairDeltas(term, ops, p, k) ==
    IF k > Len(p) THEN term
    ELSE AddPairDeltas(
            add_delta(term, Delta(get_op_index(ops[p[k][1]]), get_op_index(ops[p[k][2]]))),
            ops, p, k + 1)

\* the closure of lines 86-104: the term of one pairing
FcTerm(expr, statistics, p) ==
    AddPairDeltas(
        set_coeff(ExprNew, fmul_sign(FcSign(statistics, count_crossings(p)), expr.coeff)),
        expr.ops, p, 1)

NumCreate(ops) == Cardinality({k \in 1..Len(ops) : ops[k].action = "Create"})

\* a mismatch that hands the term back instead of the empty sum
FcMismatch_keep(expr) == from_expr(expr)

\* the result of a full contraction whose counts differ (line 78)
FcMismatch(expr) == ResultNew

\* returning the argument through push_and_merge instead of from_expr
Unchanged_merged(e) == push_and_merge(ResultNew, e)

\* the result of a call that returns its argument (lines 66, 110, 148)
Unchanged(e) == from_expr(e)

\* an indexing ops[i] of the code panics outside the vector
InRange(s, i) == i \in 1..Len(s)

\* wick_expand_fc_pv: the result's terms, with the pairings and the terms of
\* the closure it went through
wick_expand_fc_pv(expr, statistics) ==
    IF Len(expr.ops) <= 1 \/ is_normal_order(expr)
    THEN [terms |-> Unchanged(expr), pairings |-> <<>>, emitted |-> <<>>,
          panic |-> FALSE, arm |-> "unchanged"]
    ELSE IF NumCreate(expr.ops) # Len(expr.ops) - NumCreate(expr.ops)
    THEN [terms |-> FcMismatch(expr), pairings |-> <<>>, emitted |-> <<>>,
          panic |-> FALSE, arm |-> "mismatch"]
    ELSE LET indices == [k \in 1..Len(expr.ops) |-> k]
             pairings == generate_pairings(expr.ops, indices)
             bad == \E m \in 1..Len(pairings) : \E k \in 1..Len(pairings[m]) :
                       ~InRange(expr.ops, pairings[m][k][1])
                           \/ ~InRange(expr.ops, pairings[m][k][2])
             emitted == [m \in 1..Len(pairings) |-> FcTerm(expr, statistics, pairings[m])]
         IN  IF bad
             THEN [terms |-> <<>>, pairings |-> pairings, emitted |-> <<>>,
                   panic |-> TRUE, arm |-> "pairings"]
             ELSE [terms |-> from_iter(emitted), pairings |-> pairings,
                   emitted |-> emitted, panic |-> FALSE, arm |-> "pairings"]

\* the scan of lines 114-118 stopping one pair early
RECURSIVE FirstContractable_short(_, _)
FirstContractable_short(ops, i) ==
    IF i > Len(ops) - 2 THEN 0
    ELSE IF can_contract(ops[i], ops[i + 1]) THEN i
    ELSE FirstContractable_short(ops, i + 1)

\* the first position i with can_contract(ops[i], ops[i+1]), or 0 (lines 114-118)
RECURSIVE FirstContractable(_, _)
FirstContractable(ops, i) ==
    IF i > Len(ops) - 1 THEN 0
    ELSE IF can_contract(ops[i], ops[i + 1]) THEN i
    ELSE FirstContractable(ops, i + 1)

\* Vec::swap(i, i + 1)
SwapAt(ops, i) ==
    [k \in 1..Len(ops) |-> IF k = i THEN ops[i + 1] ELSE IF k = i + 1 THEN ops[i] ELSE ops[k]]

\* Vec::remove(i)
RemoveAt(ops, i) == [k \in 1..(Len(ops) - 1) |-> IF k < i THEN ops[k] ELSE ops[k + 1]]

\* the swapped term with the sign of line 126 forgotten
Swapped_nosign(statistics, e, i) == [e EXCEPT !.ops = SwapAt(e.ops, i)]

\* the swapped term with the swap of line 123 forgotten
Swapped_noswap(statistics, e, i) ==
    IF statistics = "FermiDirac" THEN [e EXCEPT !.coeff = fmul_sign(-1, @)] ELSE e

\* the swapped term of lines 122-127
Swapped(statistics, e, i) ==
    LET sw == [e EXCEPT !.ops = SwapAt(e.ops, i)]
    IN  IF statistics = "FermiDirac" THEN [sw EXCEPT !.coeff = fmul_sign(-1, @)] ELSE sw

\* the contracted term of lines 131-135, before its two operators are removed
Contracted(e, i) == add_delta(e, Delta(e.ops[i].index, e.ops[i + 1].index))

\* lines 138-139
RemovePair(e, i) == [e EXCEPT !.ops = RemoveAt(RemoveAt(e.ops, i), i)]

\* whether one of the two remove(i) of lines 138-139 panics
RemovePanics(e, i) == ~InRange(e.ops, i) \/ ~InRange(RemoveAt(e.ops, i), i)

Ok(terms) == [terms |-> terms, panic |-> FALSE]
Panic == [terms |-> <<>>, panic |-> TRUE]
AddRes(r1, r2) ==
    IF r1.panic \/ r2.panic THEN Panic ELSE Ok(AddResult(r1.terms, r2.terms))

\* wick_expand_pv
RECURSIVE wick_expand_pv(_, _)
wick_expand_pv(statistics, e) ==
    IF Len(e.ops) <= 1 \/ is_normal_order(e) THEN Ok(Unchanged(e))
    ELSE LET i == FirstContractable(e.ops, 1)
         IN  IF i = 0 THEN Ok(Unchanged(e))
             ELSE LET r1 == AddRes(Ok(ResultNew),
                                   wick_expand_pv(statistics, Swapped(statistics, e, i)))
                      contracted == Contracted(e, i)
                  IN  IF ~abs_gt_1e12(contracted.coeff) THEN r1
                      ELSE IF RemovePanics(contracted, i) THEN Panic
                      ELSE AddRes(r1, wick_expand_pv(statistics, RemovePair(contracted, i)))

----------------------------------------------------------------------------
(* The input terms of the model *)

AllowedPairs == {sv \in Spaces \X Vacuums : is_allowed(sv[1], sv[2])}

MaxName(ops) ==
    IF ops = <<>> THEN 0
    ELSE CHOOSE n \in {ops[k].index.name : k \in 1..Len(ops)} :
            \A k \in 1..Len(ops) : ops[k].index.name <= n

\* the operator sequences of length n over one (space, vacuum), each name one
\* already used or the next unused one
RECURSIVE OpSeqs(_, _)
OpSeqs(n, sv) ==
    IF n = 0 THEN {<<>>}
    ELSE UNION {{Append(s, Op(Index(nm, sv[1], sv[2]), act)) :
                    nm \in 1..(MaxName(s) + 1), act \in Actions} :
                s \in OpSeqs(n - 1, sv)}

InputCoeffs == {F(1), F(-2), Tiny(2), F(0)}

P(n) == Index(n, "General", "Physical")

\* 1.0 * ap3 * ap4 * cp1 * cp2, the term of the tests of wick.rs (lines 260-269)
TestExpr ==
    [coeff |-> F(1), deltas |-> <<>>,
     ops |-> <<fannx(P(3)), fannx(P(4)), fcrex(P(1)), fcrex(P(2))>>,
     statistic |-> "FermiDirac"]

InputTerms ==
    {TestExpr} \cup
    {[coeff |-> c, deltas |-> <<>>, ops |-> ops, statistic |-> st] :
        c \in InputCoeffs, st \in StatisticsSet,
        ops \in UNION {OpSeqs(n, sv) : n \in 0..MaxOps, sv \in AllowedPairs}}

----------------------------------------------------------------------------
(* WickTheorem *)

\* the vacuum WickTheorem::new infers (lines 22-26)
InferVacuum(expr) == IF expr.ops = <<>> THEN "Physical" ELSE expr.ops[1].index.vacuum

NoCall == [f |-> "none"]
NoReturn == [has |-> FALSE]

FnIdle == fn_arg = <<>> /\ fn_out = NoCall
StepIdle == stack = <<>> /\ ret = NoReturn /\ root = [fn |-> "none"]
MergeIdle ==
    /\ pool = <<>> /\ sumA = <<>> /\ sumB = <<>> /\ usedA = {} /\ usedB = {}
    /\ merge_op = "none"
NoBuild == [called |-> FALSE]
ExprIdle == self_ = <<>> /\ other_ = <<>> /\ expr_op = "none" /\ built = NoBuild

\* WickTheorem::new(expr)
Init ==
    /\ expr_ \in InputTerms
    /\ full_contractions_ = FALSE
    /\ wick_result_ = ResultNew
    /\ vacuum_ = InferVacuum(expr_)
    /\ statistics_ = expr_.statistic
    /\ pairings_ = <<>>
    /\ emitted_ = <<>>
    /\ computed_ = "none"
    /\ panicked_ = FALSE
    /\ FnIdle /\ StepIdle /\ MergeIdle /\ ExprIdle

\* WickTheorem::full_contractions
FullContractions(b) ==
    /\ full_contractions_' = b
    /\ UNCHANGED <<expr_, wick_result_, vacuum_, statistics_, pairings_, emitted_,
                   computed_, panicked_>>
    /\ UNCHANGED <<fnVars, stepVars, mergeVars, exprVars>>

\* the match of compute() taking the two Physical arms under every vacuum
ComputeArm_any_vacuum(vacuum, full) == IF full THEN "full" ELSE "general"

\* the arm the match of compute() takes (lines 45-51)
ComputeArm(vacuum, full) ==
    IF vacuum = "Physical" /\ full THEN "full"
    ELSE IF vacuum = "Physical" THEN "general"
    ELSE "skipped"

\* WickTheorem::compute
Compute ==
    /\ ~panicked_
    /\ IF ComputeArm(vacuum_, full_contractions_) = "full"
       THEN LET r == wick_expand_fc_pv(expr_, statistics_)
            IN  /\ wick_result_' = IF r.panic THEN wick_result_ ELSE r.terms
                /\ pairings_' = r.pairings
                /\ emitted_' = r.emitted
                /\ computed_' = "full"
                /\ panicked_' = r.panic
       ELSE IF ComputeArm(vacuum_, full_contractions_) = "general"
       THEN LET r == wick_expand_pv(statistics_, expr_)
            IN  /\ wick_result_' = IF r.panic THEN wick_result_ ELSE r.terms
                /\ pairings_' = <<>>
                /\ emitted_' = <<>>
                /\ computed_' = "general"
                /\ panicked_' = r.panic
       ELSE /\ computed_' = "skipped"
            /\ UNCHANGED <<wick_result_, pairings_, emitted_, panicked_>>
    /\ UNCHANGED <<expr_, full_contractions_, vacuum_, statistics_>>
    /\ UNCHANGED <<fnVars, stepVars, mergeVars, exprVars>>

Next ==
    \/ \E b \in BOOLEAN : FullContractions(b)
    \/ Compute

Spec == Init /\ [][Next]_vars

----------------------------------------------------------------------------
(* Claims about WickTheorem::compute, under Spec *)

Odd(n) == n % 2 # 0

\* the pairs of a pairing, each as <<min, max>>
NormalPairs(p) == {Normalize(p[k]) : k \in 1..Len(p)}

\* the number of two-element sets of pairs that strictly interleave
Crossings(p) ==
    Cardinality({S \in SUBSET NormalPairs(p) :
        /\ Cardinality(S) = 2
        /\ \E x \in S : \E y \in S : x[1] < y[1] /\ y[1] < x[2] /\ x[2] < y[2]})

FullInFermi(c) == statistics_ = "FermiDirac" /\ Odd(c)

ScalarTerm(c, ds) == [coeff |-> c, deltas |-> ds, ops |-> <<>>, statistic |-> "FermiDirac"]

\* C2: in full-contraction mode the term emitted for a pairing has the input
\* coefficient, negated exactly when the statistics is Fermi-Dirac and the
\* pairing has an odd number of crossings; and the full contraction of
\* a(p3) a(p4) a+(p1) a+(p2) is -d(p3,p1)d(p4,p2) + d(p3,p2)d(p4,p1).
C2_FullContractionSign ==
    computed_ = "full" =>
        /\ Len(emitted_) = Len(pairings_)
        /\ \A m \in 1..Len(pairings_) :
              emitted_[m].coeff =
                 IF FullInFermi(Crossings(pairings_[m])) THEN fneg(expr_.coeff)
                 ELSE expr_.coeff
        /\ expr_ = TestExpr =>
              wick_result_ =
                 << ScalarTerm(F(-1), <<Delta(P(3), P(1)), Delta(P(4), P(2))>>),
                    ScalarTerm(F(1), <<Delta(P(3), P(2)), Delta(P(4), P(1))>>) >>

C2_Witness ==
    /\ computed_ = "full" /\ expr_ = TestExpr
    /\ Len(emitted_) = 2
    /\ emitted_[1].coeff = F(-1) /\ emitted_[2].coeff = F(1)

\* C3: in full-contraction mode every emitted term has no operators and one
\* Delta per pair of its pairing, the Delta (index of ops[i], index of ops[j])
\* of the pair (i, j), whatever names the operators carry.
C3_OneDeltaPerPair ==
    computed_ = "full" =>
        \A m \in 1..Len(pairings_) :
            /\ m \in DOMAIN emitted_
            /\ emitted_[m].ops = <<>>
            /\ emitted_[m].deltas =
                  [k \in 1..Len(pairings_[m]) |->
                      Delta(expr_.ops[pairings_[m][k][1]].index,
                            expr_.ops[pairings_[m][k][2]].index)]

\* an Annihilate operator immediately followed by a Create operator
HasAnnihilateCreate(ops) ==
    \E k \in 1..(Len(ops) - 1) :
        ops[k].action = "Annihilate" /\ ops[k + 1].action = "Create"

\* C4: every term of the result of a general expansion is in normal order.
C4_GeneralResultNormalOrdered ==
    computed_ = "general" =>
        \A m \in 1..Len(wick_result_) : ~HasAnnihilateCreate(wick_result_[m].ops)

C4_Witness ==
    /\ computed_ = "general"
    /\ HasAnnihilateCreate(expr_.ops)
    /\ Len(wick_result_) >= 5

FermiTerm(c, ds, ops) == [coeff |-> c, deltas |-> ds, ops |-> ops, statistic |-> "FermiDirac"]

\* C5: the general expansion of a(p3) a(p4) a+(p1) a+(p2) is, in this order,
\* +a+(p1)a+(p2)a(p3)a(p4), -d(p3,p2)a+(p1)a(p4), +d(p4,p2)a+(p1)a(p3),
\* +d(p3,p1)a+(p2)a(p4), -d(p3,p1)d(p4,p2), -d(p4,p1)a+(p2)a(p3),
\* +d(p4,p1)d(p3,p2): one term without deltas and six with deltas.
C5_GeneralExpansionOfTest ==
    (computed_ = "general" /\ expr_ = TestExpr) =>
        /\ wick_result_ =
            << FermiTerm(F(1), <<>>, <<fcrex(P(1)), fcrex(P(2)), fannx(P(3)), fannx(P(4))>>),
               FermiTerm(F(-1), <<Delta(P(3), P(2))>>, <<fcrex(P(1)), fannx(P(4))>>),
               FermiTerm(F(1), <<Delta(P(4), P(2))>>, <<fcrex(P(1)), fannx(P(3))>>),
               FermiTerm(F(1), <<Delta(P(3), P(1))>>, <<fcrex(P(2)), fannx(P(4))>>),
               FermiTerm(F(-1), <<Delta(P(3), P(1)), Delta(P(4), P(2))>>, <<>>),
               FermiTerm(F(-1), <<Delta(P(4), P(1))>>, <<fcrex(P(2)), fannx(P(3))>>),
               FermiTerm(F(1), <<Delta(P(4), P(1)), Delta(P(3), P(2))>>, <<>>) >>
        /\ Cardinality({m \in 1..Len(wick_result_) : wick_result_[m].deltas = <<>>}) = 1
        /\ Cardinality({m \in 1..Len(wick_result_) : wick_result_[m].deltas # <<>>}) = 6

C5_Witness == computed_ = "general" /\ expr_ = TestExpr /\ Len(wick_result_) = 7

Creates(ops) == {k \in 1..Len(ops) : ops[k].action = "Create"}
Annihilates(ops) == {k \in 1..Len(ops) : ops[k].action = "Annihilate"}
CountsDiffer(ops) == Cardinality(Creates(ops)) # Cardinality(Annihilates(ops))

\* C8 as stated: the engine never errors, and the full contraction of any term
\* whose Create and Annihilate counts differ is the empty sum.
C8_MismatchAlwaysEmpty ==
    /\ ~panicked_
    /\ (computed_ = "full" /\ CountsDiffer(expr_.ops)) => wick_result_ = <<>>

\* C8, amended: the engine never errors, and the full contraction of a term
\* with at least two operators that is not in normal order and whose Create
\* and Annihilate counts differ is the empty sum.
C8_MismatchEmptyUnlessShortCircuit ==
    /\ ~panicked_
    /\ (/\ computed_ = "full"
        /\ Len(expr_.ops) >= 2
        /\ HasAnnihilateCreate(expr_.ops)
        /\ CountsDiffer(expr_.ops)) => wick_result_ = <<>>

C8_Witness ==
    /\ computed_ = "full" /\ ~panicked_
    /\ Len(expr_.ops) = 4
    /\ HasAnnihilateCreate(expr_.ops)
    /\ Cardinality(Creates(expr_.ops)) = 1
    /\ wick_result_ = <<>>

\* C9: under Physical vacuum, in full and in general mode, a term with at most
\* one operator or already in normal order comes back as the only term of the
\* result, unchanged.
C9_ShortCircuitUnchanged ==
    (/\ computed_ \in {"full", "general"}
     /\ (Len(expr_.ops) <= 1 \/ ~HasAnnihilateCreate(expr_.ops))) =>
        /\ vacuum_ = "Physical"
        /\ wick_result_ = <<expr_>>

C9_Witness ==
    /\ computed_ = "full" /\ vacuum_ = "Physical"
    /\ Len(expr_.ops) = 3 /\ ~HasAnnihilateCreate(expr_.ops)
    /\ expr_.coeff = F(0)
    /\ wick_result_ = <<expr_>>

----------------------------------------------------------------------------
(* generate_pairings applied to the positions of an operator sequence *)

\* the operator sequences with the k-th operator on index p_k
FnInputs ==
    UNION {{[k \in 1..n |-> Op(P(k), acts[k])] : acts \in [1..n -> Actions]} :
           n \in 0..MaxFnOps}

AllPositions(ops) == [k \in 1..Len(ops) |-> k]

InitFn ==
    /\ fn_arg \in FnInputs
    /\ fn_out = NoCall
    /\ expr_ = ExprNew /\ full_contractions_ = FALSE /\ wick_result_ = ResultNew
    /\ vacuum_ = "Physical" /\ statistics_ = "FermiDirac"
    /\ pairings_ = <<>> /\ emitted_ = <<>> /\ computed_ = "none" /\ panicked_ = FALSE
    /\ StepIdle /\ MergeIdle /\ ExprIdle

CallGeneratePairings ==
    /\ fn_out = NoCall
    /\ fn_out' = [f |-> "generate_pairings",
                  val |-> generate_pairings(fn_arg, AllPositions(fn_arg))]
    /\ UNCHANGED <<fn_arg, wickVars, stepVars, mergeVars, exprVars>>

NextFn == CallGeneratePairings

SpecFn == InitFn /\ [][NextFn]_vars

\* the pairs (i, j) with i < j, ops[i] Annihilate and ops[j] Create
ValidPairs(ops) ==
    {pr \in (1..Len(ops)) \X (1..Len(ops)) :
        pr[1] < pr[2] /\ ops[pr[1]].action = "Annihilate" /\ ops[pr[2]].action = "Create"}

\* the perfect matchings of the positions made of such pairs
PerfectMatchings(ops) ==
    {M \in SUBSET ValidPairs(ops) :
        \A k \in 1..Len(ops) : Cardinality({pr \in M : pr[1] = k \/ pr[2] = k}) = 1}

PairSet(p) == {p[k] : k \in 1..Len(p)}

\* C1: generate_pairings over all positions returns the perfect matchings of
\* the positions whose pairs (i, j) have i < j, ops[i] Annihilate and ops[j]
\* Create: each of them once, and nothing else.
C1_PairingsArePerfectMatchings ==
    fn_out.f = "generate_pairings" =>
        LET out == fn_out.val
        IN  /\ {PairSet(out[m]) : m \in 1..Len(out)} = PerfectMatchings(fn_arg)
            /\ \A m \in 1..Len(out) : Cardinality(PairSet(out[m])) = Len(out[m])
            /\ \A m, n \in 1..Len(out) : PairSet(out[m]) = PairSet(out[n]) => m = n

C1_Witness ==
    /\ fn_out.f = "generate_pairings"
    /\ Len(fn_arg) = 6
    /\ Len(fn_out.val) = 6

----------------------------------------------------------------------------
(* One expansion stepped call by call: every frame of the stack is one call *)
(* of wick_expand_pv or of generate_pairings.                               *)

StepOps ==
    UNION {{[k \in 1..n |-> Op(P(IF distinct THEN k ELSE 1), acts[k])] :
                acts \in [1..n -> Actions], distinct \in BOOLEAN} :
           n \in 0..MaxStepOps}

StepRoots ==
    {[fn |-> "wick_expand_pv", statistics |-> st,
      e |-> [coeff |-> c, deltas |-> <<>>, ops |-> ops, statistic |-> st]] :
        st \in StatisticsSet, c \in {F(1), Tiny(2)}, ops \in StepOps}
    \cup
    {[fn |-> "generate_pairings", statistics |-> "FermiDirac",
      e |-> [coeff |-> F(1), deltas |-> <<>>, ops |-> ops, statistic |-> "FermiDirac"]] :
        ops \in StepOps}

PvFrame(e) == [e |-> e, stage |-> "enter", i |-> 0, results |-> ResultNew]
GpFrame(free) == [free |-> free, stage |-> "enter", k |-> 0, results |-> <<>>]

InitStep ==
    /\ root \in StepRoots
    /\ stack = IF root.fn = "wick_expand_pv" THEN <<PvFrame(root.e)>>
               ELSE <<GpFrame(AllPositions(root.e.ops))>>
    /\ ret = NoReturn
    /\ expr_ = ExprNew /\ full_contractions_ = FALSE /\ wick_result_ = ResultNew
    /\ vacuum_ = "Physical" /\ statistics_ = "FermiDirac"
    /\ pairings_ = <<>> /\ emitted_ = <<>> /\ computed_ = "none" /\ panicked_ = FALSE
    /\ FnIdle /\ MergeIdle /\ ExprIdle

Top == stack[Len(stack)]
Pop == SubSeq(stack, 1, Len(stack) - 1)
SetTop(f) == [stack EXCEPT ![Len(stack)] = f]
Return(val) == [has |-> TRUE, val |-> val]
Running(fn) == root.fn = fn /\ stack # <<>>
StepFrame == UNCHANGED <<root, wickVars, fnVars, mergeVars, exprVars>>

\* the tests of lines 109 and 114-118 that make the call return its argument
PvReturnsArgument(e) ==
    IF Len(e.ops) <= 1 THEN TRUE
    ELSE IF is_normal_order(e) THEN TRUE
    ELSE FirstContractable(e.ops, 1) = 0

\* the tests of lines 163 and 175
GpReturnsAtOnce(ops, free) ==
    IF free = <<>> THEN TRUE ELSE ops[free[1]].action = "Create"

\* lines 109-111 and 148: the call returns its argument
PvReturnUnchanged ==
    /\ Running("wick_expand_pv") /\ ~ret.has /\ Top.stage = "enter"
    /\ PvReturnsArgument(Top.e)
    /\ stack' = Pop
    /\ ret' = Return(Unchanged(Top.e))
    /\ StepFrame

\* lines 114-129: the call finds its pair and calls itself on the swapped term
PvCallSwapped ==
    /\ Running("wick_expand_pv") /\ ~ret.has /\ Top.stage = "enter"
    /\ ~PvReturnsArgument(Top.e)
    /\ Len(stack) < StackCap
    /\ LET i == FirstContractable(Top.e.ops, 1)
       IN  stack' = Append(SetTop([Top EXCEPT !.stage = "swap", !.i = i]),
                           PvFrame(Swapped(root.statistics, Top.e, i)))
    /\ UNCHANGED ret
    /\ StepFrame

\* lines 129-137 and 144: the swapped term's sum is added, and the contracted
\* term is dropped for its coefficient
PvSkipContracted ==
    /\ Running("wick_expand_pv") /\ ret.has /\ Top.stage = "swap"
    /\ ~abs_gt_1e12(Contracted(Top.e, Top.i).coeff)
    /\ stack' = Pop
    /\ ret' = Return(AddResult(ResultNew, ret.val))
    /\ StepFrame

\* lines 129-141: the swapped term's sum is added, and the call calls itself
\* on the contracted term
PvCallContracted ==
    /\ Running("wick_expand_pv") /\ ret.has /\ Top.stage = "swap"
    /\ abs_gt_1e12(Contracted(Top.e, Top.i).coeff)
    /\ ~RemovePanics(Contracted(Top.e, Top.i), Top.i)
    /\ Len(stack) < StackCap
    /\ stack' = Append(SetTop([Top EXCEPT !.stage = "contract",
                                          !.results = AddResult(ResultNew, ret.val)]),
                       PvFrame(RemovePair(Contracted(Top.e, Top.i), Top.i)))
    /\ ret' = NoReturn
    /\ StepFrame

\* lines 141-144: the contracted term's sum is added and the call returns
PvReturnSum ==
    /\ Running("wick_expand_pv") /\ ret.has /\ Top.stage = "contract"
    /\ stack' = Pop
    /\ ret' = Return(AddResult(Top.results, ret.val))
    /\ StepFrame

\* lines 163-177: no position is left, or the first one is a Create
GpReturnBase ==
    /\ Running("generate_pairings") /\ ~ret.has /\ Top.stage = "enter"
    /\ GpReturnsAtOnce(root.e.ops, Top.free)
    /\ stack' = Pop
    /\ ret' = Return(IF Top.free = <<>> THEN << <<>> >> ELSE <<>>)
    /\ StepFrame

\* line 180: the loop over k starts
GpEnterLoop ==
    /\ Running("generate_pairings") /\ ~ret.has /\ Top.stage = "enter"
    /\ ~GpReturnsAtOnce(root.e.ops, Top.free)
    /\ stack' = SetTop([Top EXCEPT !.stage = "loop", !.k = 2])
    /\ UNCHANGED ret
    /\ StepFrame

\* lines 185-187: position k cannot be contracted with
GpSkip ==
    /\ Running("generate_pairings") /\ ~ret.has /\ Top.stage = "loop"
    /\ Top.k <= Len(Top.free)
    /\ ~can_contract(root.e.ops[Top.free[1]], root.e.ops[Top.free[Top.k]])
    /\ stack' = SetTop([Top EXCEPT !.k = @ + 1])
    /\ UNCHANGED ret
    /\ StepFrame

\* lines 191-199: the call calls itself on the positions left
GpCallRest ==
    /\ Running("generate_pairings") /\ ~ret.has /\ Top.stage = "loop"
    /\ Top.k <= Len(Top.free)
    /\ can_contract(root.e.ops[Top.free[1]], root.e.ops[Top.free[Top.k]])
    /\ Len(stack) < StackCap
    /\ stack' = Append(SetTop([Top EXCEPT !.stage = "wait"]), GpFrame(Rest(Top.free, Top.k)))
    /\ UNCHANGED ret
    /\ StepFrame

\* lines 202-207: the pair goes in front of each pairing that came back
GpCollect ==
    /\ Running("generate_pairings") /\ ret.has /\ Top.stage = "wait"
    /\ stack' = SetTop([Top EXCEPT
                          !.stage = "loop",
                          !.results = @ \o Prepend(<<Top.free[1], Top.free[Top.k]>>, ret.val),
                          !.k = @ + 1])
    /\ ret' = NoReturn
    /\ StepFrame

\* line 209: the loop is over
GpReturnResults ==
    /\ Running("generate_pairings") /\ ~ret.has /\ Top.stage = "loop"
    /\ Top.k > Len(Top.free)
    /\ stack' = Pop
    /\ ret' = Return(Top.results)
    /\ StepFrame

NextStep ==
    \/ PvReturnUnchanged
    \/ PvCallSwapped
    \/ PvSkipContracted
    \/ PvCallContracted
    \/ PvReturnSum
    \/ GpReturnBase
    \/ GpEnterLoop
    \/ GpSkip
    \/ GpCallRest
    \/ GpCollect
    \/ GpReturnResults

SpecStep == InitStep /\ [][NextStep]_vars

\* a running call always takes its next step
FairSpecStep == SpecStep /\ WF_vars(NextStep)

\* the outermost call has returned
Returned == stack = <<>> /\ ret.has

\* the calls nested in the outermost call
Depth == IF stack = <<>> THEN 0 ELSE Len(stack) - 1

\* the stepped calls return what the functions return
StepAgrees ==
    Returned =>
        ret.val = IF root.fn = "wick_expand_pv"
                  THEN wick_expand_pv(root.statistics, root.e).terms
                  ELSE generate_pairings(root.e.ops, AllPositions(root.e.ops))

\* C6: a general expansion terminates: from every input term, of every
\* statistics and coefficient, the outermost wick_expand_pv call returns.
C6_GeneralExpansionTerminates == (root.fn = "wick_expand_pv") => <>Returned

C6_Witness ==
    /\ root.fn = "wick_expand_pv" /\ Returned
    /\ Len(root.e.ops) = 5
    /\ root.statistics = "BoseEinstein"
    /\ Len(ret.val) >= 7

\* pairs of an Annihilate operator somewhere before a Create operator
Inversions(ops) ==
    Cardinality({pr \in (1..Len(ops)) \X (1..Len(ops)) :
        pr[1] < pr[2] /\ ops[pr[1]].action = "Annihilate" /\ ops[pr[2]].action = "Create"})

\* C7 as stated: with n operators in the input term, at most n calls of
\* wick_expand_pv are nested in the outermost one, and at most n/2 calls of
\* generate_pairings.
C7_DepthAtMostOperatorCount ==
    /\ root.fn = "wick_expand_pv" => Depth <= Len(root.e.ops)
    /\ root.fn = "generate_pairings" => Depth <= Len(root.e.ops) \div 2

\* C7, amended: at most as many calls of wick_expand_pv are nested in the
\* outermost one as the input has inversions (an Annihilate before a Create),
\* which is at most floor(n/2) * ceil(n/2); and at most n/2 calls of
\* generate_pairings.
C7_DepthAtMostInversions ==
    LET n == Len(root.e.ops)
    IN  /\ root.fn = "wick_expand_pv" =>
              /\ Depth <= Inversions(root.e.ops)
              /\ Inversions(root.e.ops) <= (n \div 2) * ((n + 1) \div 2)
        /\ root.fn = "generate_pairings" => Depth <= n \div 2

C7_Witness ==
    /\ root.fn = "wick_expand_pv"
    /\ Len(root.e.ops) = 5
    /\ Depth = 6

----------------------------------------------------------------------------
(* ResultExpr merging: the terms of a pool summed twice, once pushed one by *)
(* one in any order (sumA), once added as partial sums in any grouping      *)
(* (sumB).                                                                  *)

MergeCoeffs == <<Big(1), Big(-1), F(1), F(-1), Tiny(3), Tiny(-2)>>

MergeShapes ==
    << [deltas |-> <<Delta(P(1), P(2))>>, ops |-> <<>>],
       [deltas |-> <<Delta(P(2), P(1))>>, ops |-> <<>>],
       [deltas |-> <<>>, ops |-> <<fcrex(P(1))>>] >>

NumKinds == Len(MergeCoeffs) * Len(MergeShapes)

TermKind(n) ==
    LET shape == MergeShapes[((n - 1) \div Len(MergeCoeffs)) + 1]
    IN  [coeff |-> MergeCoeffs[((n - 1) % Len(MergeCoeffs)) + 1],
         deltas |-> shape.deltas, ops |-> shape.ops, statistic |-> "FermiDirac"]

\* the pools: one list for each multiset of at most MaxPool terms
Pools ==
    UNION {{[k \in 1..n |-> TermKind(ix[k])] :
                ix \in {f \in [1..n -> 1..NumKinds] :
                            \A k \in 1..(n - 1) : f[k] <= f[k + 1]}} :
           n \in 0..MaxPool}

InitMerge ==
    /\ pool \in Pools
    /\ sumA = ResultNew /\ sumB = ResultNew
    /\ usedA = {} /\ usedB = {}
    /\ expr_ = ExprNew /\ full_contractions_ = FALSE /\ wick_result_ = ResultNew
    /\ vacuum_ = "Physical" /\ statistics_ = "FermiDirac"
    /\ pairings_ = <<>> /\ emitted_ = <<>> /\ computed_ = "none" /\ panicked_ = FALSE
    /\ FnIdle /\ StepIdle /\ ExprIdle
    /\ merge_op = "none"

AllOfPool == 1..Len(pool)

\* sumA.push_and_merge(pool[k])
PushA(k) ==
    /\ k \notin usedA
    /\ sumA' = push_and_merge(sumA, pool[k])
    /\ usedA' = usedA \cup {k}
    /\ merge_op' = "push"
    /\ UNCHANGED <<pool, sumB, usedB, wickVars, fnVars, stepVars, exprVars>>

RECURSIVE SeqOfSet(_)
SeqOfSet(S) ==
    IF S = {} THEN <<>>
    ELSE LET m == CHOOSE x \in S : \A y \in S : x <= y
         IN  <<pool[m]>> \o SeqOfSet(S \ {m})

\* the terms of S collected into a partial sum, which is added to sumB:
\* sumB + partial, or partial + sumB
AddGroupB(S, partialFirst) ==
    /\ usedA = AllOfPool
    /\ S # {} /\ S \cap usedB = {}
    /\ LET partial == from_iter(SeqOfSet(S))
       IN  sumB' = IF partialFirst THEN AddResult(partial, sumB)
                   ELSE AddResult(sumB, partial)
    /\ usedB' = usedB \cup S
    /\ merge_op' = "add"
    /\ UNCHANGED <<pool, sumA, usedA, wickVars, fnVars, stepVars, exprVars>>

\* sumA.simplify(), at any point between the pushes into sumA, or
\* sumB.simplify(), once every group is added (sumB is built after sumA)
Simplify(onA) ==
    /\ IF onA THEN usedB = {} ELSE usedB = AllOfPool
    /\ IF onA THEN sumA' = simplify(sumA) /\ UNCHANGED sumB
              ELSE sumB' = simplify(sumB) /\ UNCHANGED sumA
    /\ merge_op' = IF onA THEN "simplify_a" ELSE "simplify_b"
    /\ UNCHANGED <<pool, usedA, usedB, wickVars, fnVars, stepVars, exprVars>>

NextMerge ==
    \/ \E k \in AllOfPool : PushA(k)
    \/ \E onA \in BOOLEAN : Simplify(onA)
    \/ \E S \in SUBSET AllOfPool : \E partialFirst \in BOOLEAN : AddGroupB(S, partialFirst)

SpecMerge == InitMerge /\ [][NextMerge]_vars

MergeDone == usedA = AllOfPool /\ usedB = AllOfPool

\* the Deltas of a term as a multiset of unordered pairs of names
NamePairs(t) == {{t.deltas[k].a.name, t.deltas[k].b.name} : k \in 1..Len(t.deltas)}
DeltaCount(t, np) ==
    Cardinality({k \in 1..Len(t.deltas) : {t.deltas[k].a.name, t.deltas[k].b.name} = np})

\* the same statistics, operator sequence and canonical Delta multiset
SameClass(t, u) ==
    /\ t.statistic = u.statistic
    /\ t.ops = u.ops
    /\ NamePairs(t) = NamePairs(u)
    /\ \A np \in NamePairs(t) : DeltaCount(t, np) = DeltaCount(u, np)

InClass(sum, t) == {k \in 1..Len(sum) : SameClass(sum[k], t)}

\* the coefficient a sum holds for the class of t (zero when it holds none)
FinalCoeff(sum, t) ==
    IF InClass(sum, t) = {} THEN F(0)
    ELSE sum[CHOOSE k \in InClass(sum, t) : TRUE].coeff

IntegerCoeff(c) == c[1] = 0 /\ c[3] = 0

\* C10 as stated: the terms of a multiset, pushed in any order or added as
\* partial sums in any grouping, end with the same coefficient in each class
\* of similar terms.
C10_MergeOrderIndependent ==
    MergeDone =>
        \A k \in AllOfPool : FinalCoeff(sumA, pool[k]) = FinalCoeff(sumB, pool[k])

\* C10, amended: when the coefficients are integers whose sums are integers
\* of magnitude below 2^53, the terms of a multiset, pushed in any order or
\* added as partial sums in any grouping, end with one term for each class of
\* similar terms and with the same coefficient in it (a class without a term
\* counting as coefficient zero).
C10_MergeOrderIndependentOnIntegers ==
    (MergeDone /\ \A k \in AllOfPool : IntegerCoeff(pool[k].coeff)) =>
        \A k \in AllOfPool :
            /\ FinalCoeff(sumA, pool[k]) = FinalCoeff(sumB, pool[k])
            /\ Cardinality(InClass(sumA, pool[k])) <= 1
            /\ Cardinality(InClass(sumB, pool[k])) <= 1

C10_Witness ==
    /\ MergeDone
    /\ Len(pool) = 3
    /\ \A k \in AllOfPool : IntegerCoeff(pool[k].coeff)
    /\ pool[1].deltas # <<>> /\ pool[1].deltas # pool[3].deltas
    /\ Len(sumA) = 1 /\ sumA[1].coeff = F(1)
    /\ Len(sumB) = 1 /\ sumB[1].coeff = F(1)

----------------------------------------------------------------------------
(* Claims about WickTheorem under Spec, continued *)

\* C14: when the vacuum inferred from the first operator is not Physical,
\* compute() computes nothing in either mode: after any sequence of
\* full_contractions(..) and compute() calls the stored result is the empty
\* ResultExpr the contractor was made with, and no call panicked.
C14_NonPhysicalComputesNothing ==
    vacuum_ # "Physical" => wick_result_ = ResultNew /\ ~panicked_

C14_Witness ==
    /\ vacuum_ = "Fermi" /\ computed_ = "skipped" /\ full_contractions_
    /\ Len(expr_.ops) = 2 /\ ~is_normal_order(expr_)
    /\ ~abs_lt_1e15(expr_.coeff)

\* the index names of the operators are pairwise distinct
DistinctNames(ops) ==
    \A j \in 1..Len(ops) : \A k \in 1..Len(ops) :
        j # k => ops[j].index.name # ops[k].index.name

\* the terms of a sum without operators, each as <<coefficient, set of the
\* canonical pairs of its Deltas>>
Scalars(sum) ==
    {<<sum[k].coeff, {canonical(sum[k].deltas[m]) : m \in 1..Len(sum[k].deltas)}>> :
        k \in {j \in 1..Len(sum) : sum[j].ops = <<>>}}

\* a Fermi-Dirac term of pairwise distinct names, not short-circuited, with as
\* many Create as Annihilate operators, after a general expansion
BothEnginesApply ==
    /\ computed_ = "general" /\ statistics_ = "FermiDirac"
    /\ DistinctNames(expr_.ops)
    /\ Len(expr_.ops) >= 2 /\ ~is_normal_order(expr_)
    /\ ~CountsDiffer(expr_.ops)

\* C16 as stated: for such a term the terms without operators of the general
\* expansion are, as a set of (coefficient, canonical Delta set), the terms of
\* the full contraction.
C16_EnginesAgreeOnScalars ==
    BothEnginesApply =>
        Scalars(wick_result_) = Scalars(wick_expand_fc_pv(expr_, statistics_).terms)

\* C16, amended: the same, for an input coefficient of magnitude above 1e-12.
C16_EnginesAgreeAboveContractEps ==
    (BothEnginesApply /\ abs_gt_1e12(expr_.coeff)) =>
        Scalars(wick_result_) = Scalars(wick_expand_fc_pv(expr_, statistics_).terms)

C16_Witness ==
    /\ BothEnginesApply /\ abs_gt_1e12(expr_.coeff)
    /\ Len(expr_.ops) = 4 /\ expr_ # TestExpr
    /\ Cardinality(Scalars(wick_result_)) = 2

\* C17: every term of the result of compute(), in full and in general mode,
\* carries the statistics of the input term, whichever of the three it is.
C17_ResultCarriesInputStatistics ==
    computed_ \in {"full", "general"} =>
        \A k \in 1..Len(wick_result_) : wick_result_[k].statistic = expr_.statistic

----------------------------------------------------------------------------
(* C11: the coefficients a ResultExpr may hold *)

BelowEps(sum) == {k \in 1..Len(sum) : abs_lt_1e15(sum[k].coeff)}

\* C11 as stated: no ResultExpr reached by push_and_merge calls, by additions
\* or by compute() holds a term whose coefficient magnitude is below 1e-15.
C11_NoTermBelowEpsilon ==
    BelowEps(sumA) = {} /\ BelowEps(sumB) = {} /\ BelowEps(wick_result_) = {}

\* C11, amended: a push_and_merge call never appends a term whose coefficient
\* magnitude is below 1e-15, and right after simplify() the ResultExpr holds
\* no term whose coefficient magnitude is at or below 1e-15 (a coefficient
\* that fell below 1e-15 by merging stays until simplify() is called).
C11_BelowEpsilonUntilSimplify ==
    /\ [](merge_op = "simplify_a" => BelowEps(sumA) = {})
    /\ [](merge_op = "simplify_b" => BelowEps(sumB) = {})
    /\ [][merge_op' = "push" /\ Len(sumA') > Len(sumA) =>
              ~abs_lt_1e15(sumA'[Len(sumA')].coeff)]_vars

C11_Witness ==
    /\ merge_op = "simplify_a"
    /\ Len(pool) >= 2 /\ usedA = AllOfPool
    /\ \A k \in AllOfPool : ~abs_lt_1e15(pool[k].coeff)
    /\ sumA = <<>>

----------------------------------------------------------------------------
(* Index::build, and an Expr combined with another one or given deltas: one *)
(* behaviour either builds indices or works on the term self_.             *)

\* the receivers and the arguments of the combining operations
SelfTerms ==
    {[coeff |-> c, deltas |-> <<>>, ops |-> ops, statistic |-> st] :
        c \in {F(1), F(-2)}, st \in StatisticsSet, ops \in {<<>>, <<fcrex(P(1))>>}}
OtherTerms ==
    {[coeff |-> c, deltas |-> <<>>, ops |-> ops, statistic |-> st] :
        c \in {F(1), F(-1)}, st \in StatisticsSet, ops \in {<<>>, <<fannx(P(2))>>}}

\* the indices add_delta is called with
DeltaIndices == {P(1), P(2), P(3)}

InitExpr ==
    /\ self_ \in SelfTerms /\ other_ \in OtherTerms
    /\ expr_op = "none" /\ built = NoBuild
    /\ expr_ = ExprNew /\ full_contractions_ = FALSE /\ wick_result_ = ResultNew
    /\ vacuum_ = "Physical" /\ statistics_ = "FermiDirac"
    /\ pairings_ = <<>> /\ emitted_ = <<>> /\ computed_ = "none" /\ panicked_ = FALSE
    /\ FnIdle /\ StepIdle /\ MergeIdle

ExprFrame == UNCHANGED <<other_, wickVars, fnVars, stepVars, mergeVars>>

\* no call panicked, and the behaviour is one that works on the term
TermAlive == expr_op # "mul_panic" /\ built = NoBuild

\* Index::new(name).with_space(space).with_vacuum(vacuum).build()
BuildIndex(name, space, vacuum) ==
    /\ expr_op \in {"none", "build"}
    /\ LET idx == Index(name, space, vacuum)
       IN  built' = [called |-> TRUE, arg |-> idx, ok |-> build_ok(idx)]
    /\ expr_op' = "build"
    /\ UNCHANGED self_ /\ ExprFrame

\* self_ = self_ * other_
MulExpr ==
    /\ TermAlive
    /\ Len(self_.ops) + Len(other_.ops) <= MaxExprOps
    /\ LET r == mul_expr(self_, other_)
       IN  IF r.panic THEN expr_op' = "mul_panic" /\ UNCHANGED self_
           ELSE expr_op' = "mul" /\ self_' = r.val
    /\ UNCHANGED built /\ ExprFrame

\* self_.append_expr(&other_)
AppendExpr ==
    /\ TermAlive
    /\ Len(self_.ops) + Len(other_.ops) <= MaxExprOps
    /\ self_' = append_expr(self_, other_)
    /\ expr_op' = "append_expr"
    /\ UNCHANGED built /\ ExprFrame

\* self_.add_delta(Delta { a, b })
AddDelta(a, b) ==
    /\ TermAlive
    /\ Len(self_.deltas) < MaxDeltas
    /\ self_' = add_delta(self_, Delta(a, b))
    /\ expr_op' = "add_delta"
    /\ UNCHANGED built /\ ExprFrame

NextExpr ==
    \/ \E name \in {1}, space \in Spaces, vacuum \in Vacuums : BuildIndex(name, space, vacuum)
    \/ MulExpr
    \/ AppendExpr
    \/ \E a \in DeltaIndices, b \in DeltaIndices : AddDelta(a, b)

SpecExpr == InitExpr /\ [][NextExpr]_vars

\* C12: an operation combining two terms (Term x Term, appending a term to a
\* term) produces a combined term only from terms of the same statistics, and
\* fails when the statistics differ.
C12_CombineFailsOnMismatch ==
    expr_op \in {"mul", "append_expr"} => self_.statistic = other_.statistic

\* the (space, vacuum) pairs of the table: under Physical, General only; under
\* Fermi, every space but General; under MultiReference, every space
AllowedTable ==
    {<<"General", "Physical">>}
        \cup ({"Occupied", "Virtual", "DoublyOccupied"} \X {"Fermi"})
        \cup (Spaces \X {"MultiReference"})

DeltaNames(d) == {d.a.name, d.b.name}

\* C15: add_delta substitutes transitively, so that after any sequence of
\* add_delta calls no index name occurs in two different Deltas of the term
\* (no Delta chain is left).
C15_NoIndexInTwoDeltas ==
    \A j \in 1..Len(self_.deltas) : \A k \in 1..Len(self_.deltas) :
        j # k => DeltaNames(self_.deltas[j]) \cap DeltaNames(self_.deltas[k]) = {}

============================================================================
